---- MODULE Spec2Model ----
(***************************************************************************)
(* build_changelog.py: the version resolver (SlimPackage.version,          *)
(* SlimPackage.release), the history segmenter (SlimPackage.iter_changelog)*)
(* and the main flow that writes debian/changelog.                         *)
(*                                                                         *)
(* Strings are sequences of tokens.  A token is either one of the          *)
(* characters the code looks at ("/", "-", "_", "%", "~", ":", "+", " ",   *)
(* "(", ")", ".", a newline) or a run of other characters none of the      *)
(* code's searches can split ("droidian", "bookworm", "git", a digit).     *)
(***************************************************************************)
EXTENDS Integers, Sequences, FiniteSets, TLC

(***************************************************************************)
(* Python values that are not strings.                                     *)
(***************************************************************************)
\* Python's None: a one-token sequence no string of the model contains
None == <<"\\None">>
\* an exception propagating out of an expression
Raised == <<"\\Raised">>

(***************************************************************************)
(* str methods                                                             *)
(***************************************************************************)
\* str.startswith(prefix)
StartsWith(s, p) ==
    /\ Len(p) <= Len(s)
    /\ SubSeq(s, 1, Len(p)) = p

\* str.startswith(tuple of prefixes)
StartsWithAny(s, ps) == \E i \in DOMAIN ps : StartsWith(s, ps[i])

\* the `in` operator on a one-character needle
Contains(s, tok) == \E i \in DOMAIN s : s[i] = tok

\* str.replace(pat, rep): leftmost, non-overlapping occurrences
RECURSIVE Replace(_, _, _)
Replace(s, pat, rep) ==
    IF pat = <<>>
    THEN IF s = <<>> THEN rep ELSE rep \o <<Head(s)>> \o Replace(Tail(s), pat, rep)
    ELSE IF Len(s) < Len(pat) THEN s
    ELSE IF SubSeq(s, 1, Len(pat)) = pat
         THEN rep \o Replace(SubSeq(s, Len(pat) + 1, Len(s)), pat, rep)
         ELSE <<Head(s)>> \o Replace(Tail(s), pat, rep)

\* str.split(sep) for a one-character separator: always at least one field
RECURSIVE SplitFrom(_, _, _)
SplitFrom(s, sep, cur) ==
    IF s = <<>> THEN <<cur>>
    ELSE IF Head(s) = sep THEN <<cur>> \o SplitFrom(Tail(s), sep, <<>>)
    ELSE SplitFrom(Tail(s), sep, Append(cur, Head(s)))

Split(s, sep) == SplitFrom(s, sep, <<>>)

\* s[1:-1]
Slice1(s) == IF Len(s) <= 2 THEN <<>> ELSE SubSeq(s, 2, Len(s) - 1)

\* s[0:7]
HashChars == 7
Short(s) == IF Len(s) <= HashChars THEN s ELSE SubSeq(s, 1, HashChars)

\* sep.join(parts)
RECURSIVE Join(_, _)
Join(parts, sep) ==
    IF parts = <<>> THEN <<>>
    ELSE IF Len(parts) = 1 THEN parts[1]
    ELSE parts[1] \o sep \o Join(Tail(parts), sep)

(***************************************************************************)
(* Module-level helpers                                                    *)
(***************************************************************************)
\* none_on_exception(func): the result, or None when func raised
none_on_exception(r) == IF r = Raised THEN None ELSE r

\* sanitize_tag_version, were "%" left as it is
sanitize_underscore_only(version) == Replace(version, <<"_">>, <<"~">>)

\* sanitize_tag_version(version)
sanitize_tag_version(version) ==
    Replace(Replace(version, <<"_">>, <<"~">>), <<"%">>, <<":">>)

\* multiple_replace(string, matches, replacement)
RECURSIVE multiple_replace(_, _, _)
multiple_replace(string, matches, replacement) ==
    IF matches = <<>> THEN string
    ELSE multiple_replace(Replace(string, Head(matches), replacement),
                          Tail(matches), replacement)

\* str.lower() on the tokens that hold upper-case letters
Lower(tok) ==
    CASE tok = "Feature" -> "feature"
      [] tok = "My"      -> "my"
      [] tok = "Fix"     -> "fix"
      [] OTHER           -> tok

\* the characters not_allowed_regex matches: everything outside [a-z0-9_]
NotAllowed ==
    {"/", " ", "!", "-", ".", "%", "~", ":", "+", "(", ")", ";", "=", "\n"}

\* not_allowed_regex.sub(".", string.lower()): one "." for each run
RECURSIVE SlugFrom(_, _)
SlugFrom(s, inRun) ==
    IF s = <<>> THEN <<>>
    ELSE IF Lower(Head(s)) \in NotAllowed
         THEN (IF inRun THEN <<>> ELSE <<".">>) \o SlugFrom(Tail(s), TRUE)
         ELSE <<Lower(Head(s))>> \o SlugFrom(Tail(s), FALSE)

slugify(string) == SlugFrom(string, FALSE)

(***************************************************************************)
(* Program constants: the defaults of the argument parser and of the class *)
(***************************************************************************)
\* --tag-prefix default: ["droidian/", "hybris-mobian/"]
tag_prefixes == << <<"droidian", "/">>, <<"hybris-mobian", "/">> >>
\* the prefix of upstream tags, "upstream/"
upstream_prefix == <<"upstream", "/">>
\* --branch-prefix default
branch_prefix == <<"feature", "/">>
\* --rolling-release default
rolling_release == <<"droidian">>
\* --rolling-release-replacement default, CURRENT_ROLLING_SUITE
rolling_release_replacement == <<"trixie">>

(***************************************************************************)
(* The strings the inputs are drawn from                                   *)
(***************************************************************************)
\* droidian/bookworm/1.2.3-2
TagRel == <<"droidian", "/", "bookworm", "/", "1", ".", "2", ".", "3", "-", "2">>
\* droidian/trixie/2.0_rc1-1: "_" stands for "~" in a tag name
TagRelTilde == <<"droidian", "/", "trixie", "/", "2", ".", "0", "_", "rc1", "-", "1">>
\* droidian/bookworm/1%1.0-1: "%" stands for ":" (an epoch) in a tag name
TagRelEpoch == <<"droidian", "/", "bookworm", "/", "1", "%", "1", ".", "0", "-", "1">>
\* droidian/bookworm/1.2.3: a release tag cut without a debian revision
TagRelNoRev == <<"droidian", "/", "bookworm", "/", "1", ".", "2", ".", "3">>
\* droidian/1.0-1: a release-prefix tag with no release segment
TagRelFlat == <<"droidian", "/", "1", ".", "0", "-", "1">>
\* droidian/bookworm/: an explicit --tag argument with an empty version
TagRelEmpty == <<"droidian", "/", "bookworm", "/">>
\* upstream/2.0.0
TagUpstream == <<"upstream", "/", "2", ".", "0", ".", "0">>
\* upstream/3.0
TagUpstream3 == <<"upstream", "/", "3", ".", "0">>
\* v1.0: a tag of neither family
TagOther == <<"v1", ".", "0">>

\* a comment, as given with --comment
CommentRelease == <<"release">>
CommentUnderscore == <<"my", "_", "fix">>
CommentBranch == <<"feature", "/", "My", " ", "Fix", "!", "!">>

\* a branch, as given with --branch
BranchFeature == <<"feature", "/", "bookworm", "/", "my", "-", "fix">>
BranchRolling == <<"droidian">>

\* the first line of a legacy debian/changelog
LineGood ==
    <<"pkg", " ", "(", "0", ".", "9", "-", "1", ")", " ", "unstable", ";",
      " ", "urgency", "=", "medium", "\n">>
LineEmptyVersion ==
    <<"pkg", " ", "(", ")", " ", "unstable", ";", " ", "urgency", "=", "medium", "\n">>
LineNoSpace == <<"garbage", "\n">>
LineNoParens == <<"pkg", " ", "0", ".", "9", " ", "unstable", "\n">>
\* a file of the working directory: absent, or present with its content
NoFile == [exists |-> FALSE, content |-> <<>>]
File(c) == [exists |-> TRUE, content |-> c]
\* an existing, empty file: what open(..., "w") leaves behind
EmptyFile == File(<<>>)

\* the content of debian/source/format, stripped
FormatQuilt == <<"3.0 (quilt)">>
FormatNative == <<"3.0 (native)">>
\* debian/control: its lines
ControlGood ==
    << <<"Priority", ":", " ", "optional", "\n">>,
       <<"Source", ":", " ", "pkg", "\n">> >>
ControlNoSource == << <<"Priority", ":", " ", "optional", "\n">> >>

(***************************************************************************)
(* The git repository.  Commits are numbered in the order git rev-list     *)
(* shows them: a commit's parents have larger numbers.  Parent 0 is a      *)
(* parent the object database does not hold (the boundary of a shallow     *)
(* clone).                                                                 *)
(***************************************************************************)
Unresolvable == 0

\* commit.hexsha
Hash(c) == <<"c", ToString(c), "a", "9", "f", "0", "e", "4", "b", "7">>

\* two decimal digits
Pad2(k) == <<ToString(k \div 10), ToString(k % 10)>>
\* four decimal digits
Pad4(k) == Pad2(k \div 100) \o Pad2(k % 100)

\* commit.committed_date, as the local date it stands for
committed_date(c) ==
    [year |-> 2023, month |-> 3, day |-> 28 - c, hour |-> 9, minute |-> 5, second |-> c]

\* datetime.strftime("%Y%m%d%H%M%S")
strftime(d) ==
    Pad4(d.year) \o Pad2(d.month) \o Pad2(d.day) \o Pad2(d.hour)
        \o Pad2(d.minute) \o Pad2(d.second)

\* the resolvable parents of a commit
ParentsOf(r, c) == {r.parents[c][i] : i \in DOMAIN r.parents[c]} \ {Unresolvable}

\* the commits reachable from a set of commits
RECURSIVE Reach(_, _)
Reach(r, S) ==
    LET T == S \cup UNION {ParentsOf(r, c) : c \in S}
    IN  IF T = S THEN S ELSE Reach(r, T)

\* the elements of a set of numbers, in increasing order
RECURSIVE Sorted(_)
Sorted(S) ==
    IF S = {} THEN <<>>
    ELSE LET m == CHOOSE x \in S : \A y \in S : x <= y
         IN  <<m>> \o Sorted(S \ {m})

\* git_repository.iter_commits(rev=c): c and its ancestors, newest first
iter_commits(r, c) == Sorted(Reach(r, {c}))

\* a true value of Python: neither None nor the empty string
Truthy(s) == s # None /\ s # <<>>

\* the last element of a list, list[-1]
Last(l) == l[Len(l)]

\* the commit a revision names: "HEAD", or a full hash
rev_parse(r, rev) ==
    IF rev = <<"HEAD">> THEN r.head
    ELSE CHOOSE c \in 1..r.n : Hash(c) = rev

(***************************************************************************)
(* class SlimPackage                                                       *)
(***************************************************************************)
\* the unset value of a cached property that holds no string
Unset == "None"

\* SlimPackage.__init__
SlimPackage(r, f, args) ==
    [ commit_hash  |-> args.commit,
      tag          |-> args.tag,
      branch       |-> args.branch,
      comment      |-> slugify(Replace(args.comment, branch_prefix, <<>>)),
      _name        |-> None,
      _is_native   |-> Unset,
      _version     |-> None,
      _release     |-> None,
      tags         |-> [c \in 1..r.n |->
                          IF r.tag[c] # None
                             /\ (StartsWithAny(r.tag[c], tag_prefixes)
                                 \/ StartsWith(r.tag[c], upstream_prefix))
                          THEN r.tag[c] ELSE None],
      version_hint |-> IF f.hint.exists /\ f.hint.content # <<>>
                       THEN f.hint.content ELSE None ]

\* the loop, were latest_upstream overwritten by every upstream tag it meets
RECURSIVE NonNativeScan_farthest_upstream(_, _)
NonNativeScan_farthest_upstream(tags, latest_upstream) ==
    IF tags = <<>>
    THEN latest_upstream
    ELSE LET tag == Head(tags) IN
         IF Truthy(tag) /\ StartsWithAny(tag, tag_prefixes)
         THEN LET sanitized ==
                      Last(Split(multiple_replace(tag, tag_prefixes, <<>>), "/"))
              IN  IF latest_upstream = None THEN sanitized
                  ELSE IF Contains(sanitized, "%")
                       THEN Split(sanitized, "%")[1] \o <<":">> \o latest_upstream
                       ELSE latest_upstream
         ELSE IF Truthy(tag) /\ StartsWith(tag, upstream_prefix)
              THEN NonNativeScan_farthest_upstream(
                       Tail(tags), Replace(tag, upstream_prefix, <<>>))
              ELSE NonNativeScan_farthest_upstream(Tail(tags), latest_upstream)

\* the loop of get_version_from_non_native_tags over its list of tags
RECURSIVE NonNativeScan(_, _)
NonNativeScan(tags, latest_upstream) ==
    IF tags = <<>>
    THEN latest_upstream
    ELSE LET tag == Head(tags) IN
         IF Truthy(tag) /\ StartsWithAny(tag, tag_prefixes)
         THEN LET sanitized ==
                      Last(Split(multiple_replace(tag, tag_prefixes, <<>>), "/"))
              IN  IF latest_upstream = None THEN sanitized
                  ELSE IF Contains(sanitized, "%")
                       THEN Split(sanitized, "%")[1] \o <<":">> \o latest_upstream
                       ELSE latest_upstream
         ELSE IF Truthy(tag) /\ StartsWith(tag, upstream_prefix)
                 /\ latest_upstream = None
              THEN NonNativeScan(Tail(tags), Replace(tag, upstream_prefix, <<>>))
              ELSE NonNativeScan(Tail(tags), latest_upstream)

\* the list get_version_from_non_native_tags scans
NonNativeTags(p, r) ==
    LET walk == iter_commits(r, rev_parse(r, p.commit_hash))
        hit(c) == p.tags[c] # None
    IN  [i \in 1..Len(SelectSeq(walk, hit)) |-> p.tags[SelectSeq(walk, hit)[i]]]
            \o <<p.version_hint>>

\* SlimPackage.get_version_from_non_native_tags
get_version_from_non_native_tags(p, r) == NonNativeScan(NonNativeTags(p, r), None)

\* SlimPackage.get_version_from_changelog
get_version_from_changelog(f) ==
    IF f.changelog.exists
    THEN LET fields == Split(f.changelog.content, " ")
         IN  IF Len(fields) < 2 THEN None ELSE Slice1(fields[2])
    ELSE None

\* git describe --tags --always --abbrev=0 --match=<prefix>* on the checked-out
\* commit: the nearest tag of the release family, or the hash when there is none
git_describe(r) ==
    LET walk == iter_commits(r, r.head)
        hit(c) == r.tag[c] # None /\ StartsWithAny(r.tag[c], tag_prefixes)
        hits == SelectSeq(walk, hit)
    IN  IF hits = <<>> THEN Hash(r.head) ELSE r.tag[hits[1]]

\* the third strategy: the second field of the described tag
version_from_describe(r) ==
    LET fields == Split(multiple_replace(git_describe(r), tag_prefixes, <<>>), "/")
    IN  none_on_exception(IF Len(fields) < 2 THEN Raised ELSE fields[2])

\* SlimPackage.is_native: "True", "False", or Raised when debian/source/format
\* is missing and nothing is cached
is_native(p, f) ==
    IF p._is_native # Unset THEN p._is_native
    ELSE IF f.format.exists
         THEN (IF f.format.content = FormatQuilt THEN "False" ELSE "True")
         ELSE "Raised"

\* the exceptions the class raises
ErrNoControl == "Unable to find debian/control"
ErrNoSource == "Unable to determine the source package name!"
ErrNoFormat == "Unable to find debian/source/format"
ErrNoRevision == "Non native package but no debian revision specified while tagging!"
ErrNoRelease == "At least one between tag and branch must be specified"
ErrUnpack == "ValueError: unpacking nearest_version.split('/')"
ErrNoEntry == "AttributeError: 'NoneType' object has no attribute 'contents'"
NoError == "no error"

\* _starting_version_strategies, each with the value it returns when called;
\* Raised where the call lets an exception through
Strategies(p, r, f) ==
    << IF p.tag # None
       THEN Last(Split(multiple_replace(p.tag, tag_prefixes, <<>>), "/"))
       ELSE None,
       IF is_native(p, f) = "Raised" THEN Raised
       ELSE IF is_native(p, f) = "False"
            THEN none_on_exception(get_version_from_non_native_tags(p, r))
            ELSE None,
       version_from_describe(r),
       get_version_from_changelog(f),
       <<"0", ".", "0", ".", "0">> >>

\* the loop over the strategies: the value it stops on and the number of
\* strategies it has called
RECURSIVE RunStrategies(_, _)
RunStrategies(strategies, i) ==
    IF i > Len(strategies) THEN [value |-> None, called |-> Len(strategies)]
    ELSE IF strategies[i] # None THEN [value |-> strategies[i], called |-> i]
    ELSE RunStrategies(strategies, i + 1)

\* the template, were "-1~git" used for every package
VersionTemplate_always_revision(native, starting_version) ==
    <<"-", "1", "~", "git">>

\* the template chosen for a starting version
VersionTemplate(native, starting_version) ==
    IF native = "False" /\ ~Contains(starting_version, "-")
    THEN <<"-", "1", "~", "git">>
    ELSE <<"+", "git">>

\* the suffix after "git": timestamp, short hash and comment joined by "."
GitSuffix(p, r) ==
    Join(<< strftime(committed_date(rev_parse(r, p.commit_hash))),
            Short(p.commit_hash),
            p.comment >>, <<".">>)

\* SlimPackage.version past its cache: the strategies, the template, the
\* assignment to _version and the final validation.  Gives what the access
\* returns (Raised with the exception in error), the instance afterwards,
\* and what the strategy loop did
resolve_version(p, r, f) ==
    LET run == RunStrategies(Strategies(p, r, f), 1)
        native == is_native(p, f)
    IN  IF run.value = Raised \/ native = "Raised"
        THEN [ret |-> Raised, error |-> ErrNoFormat, pkg |-> p,
              starting |-> IF run.value = Raised THEN None ELSE run.value,
              called |-> run.called]
        ELSE LET assembled == run.value
                              \o VersionTemplate(native, run.value)
                              \o GitSuffix(p, r)
                 q == [p EXCEPT !._is_native = native, !._version = assembled]
             IN  IF native = "False" /\ ~Contains(assembled, "-")
                 THEN [ret |-> Raised, error |-> ErrNoRevision, pkg |-> q,
                       starting |-> run.value, called |-> run.called]
                 ELSE [ret |-> assembled, error |-> NoError, pkg |-> q,
                       starting |-> run.value, called |-> run.called]

\* SlimPackage.version without its cache: every access resolves again
version_uncached(p, r, f) == resolve_version(p, r, f)

\* SlimPackage.version
version(p, r, f) ==
    IF p._version # None
    THEN [ret |-> p._version, error |-> NoError, pkg |-> p,
          starting |-> None, called |-> 0]
    ELSE resolve_version(p, r, f)

\* the replacement of the rolling release at the end of SlimPackage.release
Rolling(rel) == IF rel = rolling_release THEN rolling_release_replacement ELSE rel

\* SlimPackage.release, were the branch consulted before the tag
release_branch_first(p) ==
    IF ~Truthy(p._release) /\ p.branch # None
    THEN LET rel == Rolling(Split(Replace(p.branch, branch_prefix, <<>>), "/")[1])
         IN  [ret |-> rel, error |-> NoError, pkg |-> [p EXCEPT !._release = rel]]
    ELSE IF ~Truthy(p._release) /\ p.tag # None
    THEN LET rel == Rolling(Split(multiple_replace(p.tag, tag_prefixes, <<>>), "/")[1])
         IN  [ret |-> rel, error |-> NoError, pkg |-> [p EXCEPT !._release = rel]]
    ELSE IF ~Truthy(p._release)
    THEN [ret |-> Raised, error |-> ErrNoRelease, pkg |-> p]
    ELSE [ret |-> Rolling(p._release), error |-> NoError,
          pkg |-> [p EXCEPT !._release = Rolling(p._release)]]

\* SlimPackage.release, were the last field of the tag taken for the first
release_last_field(p) ==
    IF ~Truthy(p._release) /\ p.tag # None
    THEN LET rel == Rolling(Last(Split(multiple_replace(p.tag, tag_prefixes, <<>>), "/")))
         IN  [ret |-> rel, error |-> NoError, pkg |-> [p EXCEPT !._release = rel]]
    ELSE IF ~Truthy(p._release) /\ p.branch # None
    THEN LET rel == Rolling(Last(Split(Replace(p.branch, branch_prefix, <<>>), "/")))
         IN  [ret |-> rel, error |-> NoError, pkg |-> [p EXCEPT !._release = rel]]
    ELSE IF ~Truthy(p._release)
    THEN [ret |-> Raised, error |-> ErrNoRelease, pkg |-> p]
    ELSE [ret |-> Rolling(p._release), error |-> NoError,
          pkg |-> [p EXCEPT !._release = Rolling(p._release)]]

\* SlimPackage.release
release(p) ==
    IF ~Truthy(p._release) /\ p.tag # None
    THEN LET rel == Rolling(Split(multiple_replace(p.tag, tag_prefixes, <<>>), "/")[1])
         IN  [ret |-> rel, error |-> NoError, pkg |-> [p EXCEPT !._release = rel]]
    ELSE IF ~Truthy(p._release) /\ p.branch # None
    THEN LET rel == Rolling(Split(Replace(p.branch, branch_prefix, <<>>), "/")[1])
         IN  [ret |-> rel, error |-> NoError, pkg |-> [p EXCEPT !._release = rel]]
    ELSE IF ~Truthy(p._release)
    THEN [ret |-> Raised, error |-> ErrNoRelease, pkg |-> p]
    ELSE [ret |-> Rolling(p._release), error |-> NoError,
          pkg |-> [p EXCEPT !._release = Rolling(p._release)]]

\* line.strip(): without the white space at both ends
RECURSIVE Strip(_)
Strip(s) ==
    IF s = <<>> THEN s
    ELSE IF Head(s) \in {" ", "\n"} THEN Strip(Tail(s))
    ELSE IF Last(s) \in {" ", "\n"} THEN Strip(SubSeq(s, 1, Len(s) - 1))
    ELSE s

\* s.split(" ", 1)[-1]: what follows the first space, or all of s
AfterFirstSpace(s) ==
    IF Contains(s, " ")
    THEN LET i == CHOOSE k \in DOMAIN s : s[k] = " " /\ \A j \in 1..(k - 1) : s[j] # " "
         IN  SubSeq(s, i + 1, Len(s))
    ELSE s

\* SlimPackage.name
name(p, f) ==
    IF p._name # None THEN [ret |-> p._name, error |-> NoError, pkg |-> p]
    ELSE IF ~f.control.exists THEN [ret |-> Raised, error |-> ErrNoControl, pkg |-> p]
    ELSE LET isSource(line) == StartsWith(line, <<"Source", ":", " ">>)
             found == SelectSeq(f.control.content, isSource)
         IN  IF found = <<>>
             THEN [ret |-> Raised, error |-> ErrNoSource, pkg |-> p]
             ELSE LET nm == AfterFirstSpace(Strip(found[1]))
                  IN  [ret |-> nm, error |-> NoError, pkg |-> [p EXCEPT !._name = nm]]

(***************************************************************************)
(* SlimPackage.iter_changelog                                              *)
(***************************************************************************)
\* commit.author.email
Email(author) == <<author, "@", "example", ".", "org">>

\* commit.message.split("\n")[0]: the subjects of distinct commits differ
Subject(c) == <<"subject", " ", ToString(c)>>

\* entry = None
NoEntry ==
    [exists |-> FALSE, author |-> "", mail |-> <<>>, date |-> committed_date(0),
     contents |-> <<>>]

\* changelog_entry(author=..., mail=..., date=..., contents=OrderedDict())
changelog_entry(r, c) ==
    [exists |-> TRUE, author |-> r.author[c], mail |-> Email(r.author[c]),
     date |-> committed_date(c), contents |-> <<>>]

\* the same, were the message appended to the author's list
InsertLast(contents, author, message) ==
    IF \E i \in DOMAIN contents : contents[i].author = author
    THEN [i \in DOMAIN contents |->
            IF contents[i].author = author
            THEN [contents[i] EXCEPT !.messages = Append(@, message)]
            ELSE contents[i]]
    ELSE Append(contents, [author |-> author, messages |-> <<message>>])

\* contents.setdefault(author, []).insert(0, message) on the ordered mapping
\* contents, a sequence of keys with their lists in insertion order
InsertFirst(contents, author, message) ==
    IF \E i \in DOMAIN contents : contents[i].author = author
    THEN [i \in DOMAIN contents |->
            IF contents[i].author = author
            THEN [contents[i] EXCEPT !.messages = <<message>> \o @]
            ELSE contents[i]]
    ELSE Append(contents, [author |-> author, messages |-> <<message>>])

\* the entry with the commit's subject recorded under its author
Record(entry, r, c) ==
    [entry EXCEPT !.contents = InsertFirst(@, r.author[c], Subject(c))]

\* the dictionary of iter_changelog: the tags of the release family, without
\* their prefix
ReleaseTags(p) ==
    [c \in DOMAIN p.tags |->
        IF p.tags[c] # None /\ StartsWithAny(p.tags[c], tag_prefixes)
        THEN multiple_replace(p.tags[c], tag_prefixes, <<>>)
        ELSE None]

\* last_commit, were a tagged commit never taken for the last one
last_commit_unless_tagged(r, c) ==
    /\ r.tag[c] = None
    /\ IF r.parents[c] # <<>> THEN r.parents[c][1] = Unresolvable ELSE TRUE

\* last_commit, were only a commit without parents to end the walk
last_commit_root_only(r, c) == r.parents[c] = <<>>

\* last_commit: the commit has no parent, or its first parent cannot be loaded
last_commit(r, c) ==
    IF r.parents[c] # <<>> THEN r.parents[c][1] = Unresolvable ELSE TRUE

\* the condition, were a tag on the target commit to close a segment too
IsBoundary_target_included(p, r, tags, c) ==
    tags[c] # None \/ last_commit(r, c)

\* the condition that closes a segment at commit c
IsBoundary(p, r, tags, c) ==
    (tags[c] # None /\ Hash(c) # p.commit_hash) \/ last_commit(r, c)

\* DEBIAN_CHANGELOG_TEMPLATE filled in: the fields of one block of text
Stanza(nm, ver, rel, entry) ==
    [ name    |-> nm,
      version |-> sanitize_tag_version(ver),
      release |-> rel,
      content |-> [i \in DOMAIN entry.contents |->
                     [heading  |-> IF Len(entry.contents) > 1
                                   THEN <<entry.contents[i].author>> ELSE <<>>,
                      messages |-> entry.contents[i].messages]],
      author  |-> entry.author,
      mail    |-> entry.mail,
      date    |-> entry.date ]

\* the first line of a block
HeaderLine(st) ==
    st.name \o <<" ", "(">> \o st.version \o <<")", " ">> \o st.release
        \o <<";", " ", "urgency", "=", "medium", "\n">>

\* one iteration of the loop over the commits, for commit c: the exception it
\* raises, the block it yields, whether it breaks, and its locals afterwards
Iteration(p, r, f, loc, c) ==
    LET last == last_commit(r, c)
        fields == Split(loc.nearest_version, "/")
        \* the entry at the yield
        closing == IF last
                   THEN Record(IF loc.entry.exists THEN loc.entry
                               ELSE changelog_entry(r, c), r, c)
                   ELSE loc.entry
        nm == name(p, f)
    IN  IF ~IsBoundary(p, r, loc.tags, c)
        THEN [error |-> NoError, yielded |-> <<>>, break |-> FALSE, pkg |-> p,
              loc |-> [loc EXCEPT
                         !.entry = Record(IF loc.entry.exists THEN loc.entry
                                          ELSE changelog_entry(r, c), r, c),
                         !.cursor = @ + 1]]
        ELSE IF Len(fields) # 2
        THEN [error |-> ErrUnpack, yielded |-> <<>>, break |-> FALSE, pkg |-> p,
              loc |-> loc]
        ELSE IF ~closing.exists
        THEN [error |-> ErrNoEntry, yielded |-> <<>>, break |-> FALSE, pkg |-> p,
              loc |-> loc]
        ELSE IF nm.ret = Raised
        THEN [error |-> nm.error, yielded |-> <<>>, break |-> FALSE, pkg |-> p,
              loc |-> [loc EXCEPT !.entry = closing]]
        ELSE [error |-> NoError,
              yielded |-> <<Stanza(nm.ret, fields[2], fields[1], closing)>>,
              break |-> last,
              pkg |-> nm.pkg,
              loc |-> IF last
                      THEN [loc EXCEPT !.entry = NoEntry]
                      ELSE [loc EXCEPT
                              !.nearest_version = loc.tags[c],
                              !.entry = Record(changelog_entry(r, c), r, c),
                              !.cursor = @ + 1]]

(***************************************************************************)
(* State                                                                   *)
(***************************************************************************)
VARIABLES
    repo,     \* the git repository: commits, parents, tags, checked-out commit
    files,    \* the files of the working directory the program reads or writes
    pkg,      \* the SlimPackage instance
    pc,       \* the position of the caller
    it,       \* the locals of the running iter_changelog generator
    written,  \* the entries f.write has received, in order
    err,      \* the exception that ended the run
    obs       \* what the caller has observed of the properties

vars == <<repo, files, pkg, pc, it, written, err, obs>>

(***************************************************************************)
(* Bounds                                                                  *)
(***************************************************************************)
\* the longest linear history the version resolver is run on
MaxTagged == 2
\* the number of accesses to a property of one instance
MaxAccess == 2
\* the longest linear history the main flow is run on
MaxCommits == 5
\* the largest history with merges the main flow is run on
MaxMerge == 3
\* the longest linear history whose authors vary
MaxAuthored == 3
\* the longest raw version sanitize_tag_version is applied to
MaxLen == 3

(***************************************************************************)
(* Inputs                                                                  *)
(***************************************************************************)
Authors == {"Alice", "Bob"}

\* a linear history of n commits, commit 1 the newest; the oldest is the root,
\* or the boundary of a shallow clone
LinearRepo(n, tagOf, authorOf, shallow) ==
    [ n       |-> n,
      parents |-> [c \in 1..n |-> IF c < n THEN <<c + 1>>
                                  ELSE IF shallow THEN <<Unresolvable>> ELSE <<>>],
      tag     |-> tagOf,
      author  |-> authorOf,
      head    |-> 1 ]

\* the files of a working directory
WorkDir(control, format, changelog, hint) ==
    [control |-> control, format |-> format, changelog |-> changelog, hint |-> hint]

\* the arguments of the constructor
Args(commit, tag, branch, comment) ==
    [commit |-> commit, tag |-> tag, branch |-> branch, comment |-> comment]

\* nothing observed yet
NoObs ==
    [ versions   |-> <<>>,   \* the values pkg.version has returned
      at         |-> <<>>,   \* the changelog, tags and checked-out commit at each
      releases   |-> <<>>,   \* the values pkg.release has returned
      starting   |-> None,   \* the starting version the strategy loop stopped on
      called     |-> 0,      \* the number of strategies it called
      strategies |-> <<>>,   \* what each strategy returns in that environment
      native     |-> Unset,  \* is_native in that environment
      opened     |-> FALSE ] \* debian/changelog has been opened for writing

\* the environment an access to pkg.version takes place in
Env == [changelog |-> files.changelog, tag |-> repo.tag, head |-> repo.head]

\* obs after an access to pkg.version that gave v
Observe(v) ==
    IF v.ret = Raised \/ pkg._version = None
    THEN [obs EXCEPT
            !.versions = IF v.ret = Raised THEN @ ELSE Append(@, v.ret),
            !.at = IF v.ret = Raised THEN @ ELSE Append(@, Env),
            !.starting = v.starting,
            !.called = v.called,
            !.strategies = Strategies(pkg, repo, files),
            !.native = is_native(pkg, files)]
    ELSE [obs EXCEPT !.versions = Append(@, v.ret), !.at = Append(@, Env)]

\* no generator is running
NoIter ==
    [tags |-> <<>>, nearest_version |-> None, entry |-> NoEntry, walk |-> <<>>,
     cursor |-> 0]

(***************************************************************************)
(* The version resolver on its own: an instance whose properties are read  *)
(* while the repository and the working directory change around it         *)
(***************************************************************************)
\* the state when SlimPackage(r, a...) has been constructed in working
\* directory f, the caller at position at
Constructed(r, f, a, at) ==
    /\ repo = r
    /\ files = f
    /\ pkg = SlimPackage(r, f, a)
    /\ pc = at
    /\ it = NoIter
    /\ written = <<>>
    /\ err = NoError
    /\ obs = NoObs

\* linear histories that exercise the scan of the non-native strategy:
\* upstream and release tags in every order, with and without a hint
ScanScenarios ==
    \E n \in 1..MaxTagged :
    \E t \in [1..n -> {None, TagUpstream, TagUpstream3, TagRel, TagRelEpoch}] :
    \E fmt \in {FormatQuilt, FormatNative} :
    \E hint \in {NoFile, File(TagRelEpoch), File(TagUpstream)} :
        Constructed(LinearRepo(n, t, [c \in 1..n |-> "Alice"], FALSE),
                    WorkDir(File(ControlGood), File(fmt), NoFile, hint),
                    Args(Hash(1), None, BranchFeature, CommentRelease),
                    "live")

\* one-commit histories that exercise the strategy chain: every combination of
\* explicit tag, package format, nearest tag and legacy changelog
ChainScenarios ==
    \E t \in {None, TagRel, TagRelNoRev, TagRelFlat, TagUpstream, TagOther} :
    \E fmt \in {File(FormatQuilt), File(FormatNative), NoFile} :
    \E log \in {NoFile, File(LineGood), File(LineEmptyVersion), File(LineNoSpace),
                File(LineNoParens)} :
    \E tag \in {None, TagRel, TagRelNoRev, TagRelEmpty} :
        Constructed(LinearRepo(1, <<t>>, <<"Alice">>, FALSE),
                    WorkDir(File(ControlGood), fmt, log, NoFile),
                    Args(Hash(1), tag, BranchFeature, CommentRelease),
                    "live")

\* untagged one-commit histories that exercise the arguments: explicit tag,
\* branch and comment
ArgScenarios ==
    \E fmt \in {FormatQuilt, FormatNative} :
    \E tag \in {None, TagRel, TagRelTilde, TagRelEpoch} :
    \E branch \in {None, BranchFeature, BranchRolling} :
    \E comment \in {CommentRelease, CommentUnderscore, CommentBranch} :
        Constructed(LinearRepo(1, <<None>>, <<"Alice">>, FALSE),
                    WorkDir(File(ControlGood), File(fmt), NoFile, NoFile),
                    Args(Hash(1), tag, branch, comment),
                    "live")

InitVersion == ScanScenarios \/ ChainScenarios \/ ArgScenarios

\* an access to pkg.version
GetVersion ==
    /\ pc = "live"
    /\ Len(obs.versions) + Len(obs.releases) < MaxAccess
    /\ \E v \in {version(pkg, repo, files)} :
        /\ pkg' = v.pkg
        /\ IF v.ret = Raised
           THEN /\ pc' = "failed"
                /\ err' = v.error
           ELSE /\ pc' = pc
                /\ err' = err
        /\ obs' = Observe(v)
    /\ UNCHANGED <<repo, files, it, written>>

\* an access to pkg.release
GetRelease ==
    /\ pc = "live"
    /\ Len(obs.versions) + Len(obs.releases) < MaxAccess
    /\ \E v \in {release(pkg)} :
        /\ pkg' = v.pkg
        /\ IF v.ret = Raised
           THEN /\ pc' = "failed"
                /\ err' = v.error
                /\ obs' = obs
           ELSE /\ pc' = pc
                /\ err' = err
                /\ obs' = [obs EXCEPT !.releases = Append(@, v.ret)]
    /\ UNCHANGED <<repo, files, it, written>>

\* debian/changelog is opened for writing, which empties it
EnvTruncate ==
    /\ pc = "live"
    /\ files.changelog # EmptyFile
    /\ files' = [files EXCEPT !.changelog = EmptyFile]
    /\ UNCHANGED <<repo, pkg, pc, it, written, err, obs>>

\* another commit is checked out
EnvCheckout ==
    /\ pc = "live"
    /\ \E c \in 1..repo.n :
        /\ c # repo.head
        /\ repo' = [repo EXCEPT !.head = c]
    /\ UNCHANGED <<files, pkg, pc, it, written, err, obs>>

\* the tags are deleted from the repository
EnvUntag ==
    /\ pc = "live"
    /\ \E c \in 1..repo.n : repo.tag[c] # None
    /\ repo' = [repo EXCEPT !.tag = [c \in 1..repo.n |-> None]]
    /\ UNCHANGED <<files, pkg, pc, it, written, err, obs>>

NextVersion == GetVersion \/ GetRelease \/ EnvTruncate \/ EnvCheckout \/ EnvUntag

SpecVersion == InitVersion /\ [][NextVersion]_vars

(***************************************************************************)
(* The main flow: the version is resolved and printed, debian/changelog is *)
(* opened for writing, and every entry iter_changelog yields is written    *)
(***************************************************************************)
\* the author of commit c where the authors do not vary
AuthorOf(c) == IF c % 2 = 1 THEN "Alice" ELSE "Bob"

\* linear histories under release tags, tagged target included
LinearScenarios ==
    \E n \in 1..MaxCommits :
    \E t \in [1..n -> {None, TagRel, TagRelTilde}] :
    \E shallow \in BOOLEAN :
    \E tag \in {None, TagRel} :
    \E comment \in {CommentRelease, CommentUnderscore} :
        Constructed(LinearRepo(n, t, [c \in 1..n |-> AuthorOf(c)], shallow),
                    WorkDir(File(ControlGood), File(FormatNative), NoFile, NoFile),
                    Args(Hash(1), tag, BranchFeature, comment),
                    "version")

\* the parent lists a commit c of n can have: none, one or two of the older
\* commits and the unresolvable parent
ParentLists(c, n) ==
    LET older == ((c + 1)..n) \cup {Unresolvable}
    IN  {<<>>} \cup {<<a>> : a \in older}
               \cup {<<x[1], x[2]>> : x \in {y \in older \X older : y[1] # y[2]}}

\* histories with merges, several roots and shallow boundaries: every commit
\* is an ancestor of commit 1
MergeScenarios ==
    \E n \in 2..MaxMerge :
    \E ps \in [1..n -> UNION {ParentLists(c, n) : c \in 1..n}] :
    \E t \in [1..n -> {None, TagRel}] :
        /\ \A c \in 1..n : ps[c] \in ParentLists(c, n)
        /\ Reach([parents |-> ps], {1}) = 1..n
        /\ Constructed([n |-> n, parents |-> ps, tag |-> t,
                        author |-> [c \in 1..n |-> AuthorOf(c)], head |-> 1],
                       WorkDir(File(ControlGood), File(FormatNative), NoFile, NoFile),
                       Args(Hash(1), None, BranchFeature, CommentRelease),
                       "version")

\* linear histories whose authors vary
AuthorScenarios ==
    \E n \in 1..MaxAuthored :
    \E t \in [1..n -> {None, TagRel}] :
    \E a \in [1..n -> Authors] :
        Constructed(LinearRepo(n, t, a, FALSE),
                    WorkDir(File(ControlGood), File(FormatNative), NoFile, NoFile),
                    Args(Hash(1), None, BranchFeature, CommentRelease),
                    "version")

\* three-commit histories that exercise the files of the working directory,
\* the arguments of the command line and tags of other shapes
FileScenarios ==
    \E t1 \in {None, TagRel} :
    \E t2 \in {None, TagRel, TagRelFlat, TagUpstream} :
    \E control \in {File(ControlGood), File(ControlNoSource), NoFile} :
    \E format \in {File(FormatNative), File(FormatQuilt), NoFile} :
    \E log \in {NoFile, File(LineGood)} :
    \E commit \in {Hash(1), <<"HEAD">>} :
    \* branch=args.branch or (None if args.tag else the active branch)
    \E x \in { <<None, BranchFeature>>, <<None, BranchRolling>>,
               <<TagRel, None>>, <<TagRelNoRev, BranchFeature>> } :
        Constructed(LinearRepo(3, <<t1, t2, None>>, <<"Alice", "Bob", "Alice">>, FALSE),
                    WorkDir(control, format, log, NoFile),
                    Args(commit, x[1], x[2], CommentRelease),
                    "version")

Init == LinearScenarios \/ MergeScenarios \/ AuthorScenarios \/ FileScenarios

\* version = pkg.version; print(...)
MainVersion ==
    /\ pc = "version"
    /\ \E v \in {version(pkg, repo, files)} :
        /\ pkg' = v.pkg
        /\ obs' = Observe(v)
        /\ IF v.ret = Raised
           THEN pc' = "failed" /\ err' = v.error
           ELSE pc' = "open" /\ err' = err
    /\ UNCHANGED <<repo, files, it, written>>

\* with open("debian/changelog", "w") as f
MainOpen ==
    /\ pc = "open"
    /\ files' = [files EXCEPT !.changelog = EmptyFile]
    /\ obs' = [obs EXCEPT !.opened = TRUE]
    /\ pc' = "iter"
    /\ UNCHANGED <<repo, pkg, it, written, err>>

\* iter_changelog up to its loop: the dictionary of release tags, the top
\* release/version pair, the empty accumulator and the walk from commit_hash
IterBegin ==
    /\ pc = "iter"
    /\ \E rel \in {release(pkg)} :
       \E v \in {version(rel.pkg, repo, files)} :
           IF rel.ret = Raised
           THEN /\ pc' = "failed"
                /\ err' = rel.error
                /\ UNCHANGED <<pkg, it, obs>>
           ELSE IF v.ret = Raised
           THEN /\ pc' = "failed"
                /\ err' = v.error
                /\ pkg' = v.pkg
                /\ UNCHANGED <<it, obs>>
           ELSE /\ pc' = "loop"
                /\ err' = err
                /\ pkg' = v.pkg
                /\ obs' = [Observe(v) EXCEPT !.releases = Append(@, rel.ret)]
                /\ it' = [ tags            |-> ReleaseTags(pkg),
                           nearest_version |-> rel.ret \o <<"/">> \o v.ret,
                           entry           |-> NoEntry,
                           walk            |-> iter_commits(repo,
                                                   rev_parse(repo, pkg.commit_hash)),
                           cursor          |-> 1 ]
    /\ UNCHANGED <<repo, files, written>>

\* one iteration of the loop, with the f.write of the entry it yields; the
\* loop ends by its break, at the first commit that is a last commit, or when
\* the walk has no commit left, and then the generator returns
IterCommit ==
    /\ pc = "loop"
    /\ IF it.cursor > Len(it.walk)
       THEN /\ pc' = "done"
            /\ UNCHANGED <<pkg, it, written, files, err>>
       ELSE \E step \in {Iteration(pkg, repo, files, it, it.walk[it.cursor])} :
            /\ pkg' = step.pkg
            /\ it' = step.loc
            /\ written' = written \o step.yielded
            /\ files' = IF written = <<>> /\ step.yielded # <<>>
                        THEN [files EXCEPT !.changelog = File(HeaderLine(step.yielded[1]))]
                        ELSE files
            /\ err' = step.error
            /\ pc' = IF step.error # NoError THEN "failed"
                     ELSE IF step.break THEN "done"
                     ELSE "loop"
    /\ UNCHANGED <<repo, obs>>

Next == MainVersion \/ MainOpen \/ IterBegin \/ IterCommit

Spec == Init /\ [][Next]_vars

(***************************************************************************)
(* sanitize_tag_version on its own: a raw version is sanitized, and the    *)
(* result is sanitized again                                               *)
(***************************************************************************)
\* the characters of a raw version: the two stand-ins, the two characters
\* they stand for, and any other character
VersionChars == {"_", "%", "~", ":", "1"}

\* the raw versions: every string of up to MaxLen characters, and "1_0%2"
RawVersions ==
    UNION {[1..n -> VersionChars] : n \in 0..MaxLen} \cup {<<"1", "_", "0", "%", "2">>}

InitSanitize ==
    /\ \E x \in RawVersions : it = [NoIter EXCEPT !.nearest_version = x]
    /\ repo = LinearRepo(1, <<None>>, <<"Alice">>, FALSE)
    /\ files = WorkDir(NoFile, NoFile, NoFile, NoFile)
    /\ pkg = SlimPackage(repo, files, Args(Hash(1), None, None, CommentRelease))
    /\ pc = "raw"
    /\ written = <<>>
    /\ err = NoError
    /\ obs = NoObs

\* sanitize_tag_version(version) on the raw version
SanitizeOnce ==
    /\ pc = "raw"
    /\ obs' = [obs EXCEPT !.versions = <<sanitize_tag_version(it.nearest_version)>>]
    /\ pc' = "once"
    /\ UNCHANGED <<repo, files, pkg, it, written, err>>

\* sanitize_tag_version on its own result
SanitizeAgain ==
    /\ pc = "once"
    /\ obs' = [obs EXCEPT !.versions = Append(@, sanitize_tag_version(@[1]))]
    /\ pc' = "twice"
    /\ UNCHANGED <<repo, files, pkg, it, written, err>>

NextSanitize == SanitizeOnce \/ SanitizeAgain

SpecSanitize == InitSanitize /\ [][NextSanitize]_vars

(***************************************************************************)
(* Vocabulary of the properties                                            *)
(***************************************************************************)
\* the smallest element of a non-empty set of numbers
Min(S) == CHOOSE x \in S : \A y \in S : x <= y

\* a tag of the release family, an upstream tag
IsReleaseTag(t) ==
    Truthy(t) /\ \E i \in DOMAIN tag_prefixes :
        Len(t) >= Len(tag_prefixes[i]) /\ SubSeq(t, 1, Len(tag_prefixes[i])) = tag_prefixes[i]
IsUpstreamTag(t) ==
    Truthy(t) /\ Len(t) >= 2 /\ t[1] = "upstream" /\ t[2] = "/"

\* what follows the last "/" of a tag
AfterLastSlash(t) ==
    LET slashes == {i \in DOMAIN t : t[i] = "/"}
    IN  IF slashes = {} THEN t
        ELSE SubSeq(t, (CHOOSE i \in slashes : \A j \in slashes : j <= i) + 1, Len(t))

\* what precedes the first "%" of a version: its epoch
EpochOf(v) == SubSeq(v, 1, Min({i \in DOMAIN v : v[i] = "%"}) - 1)

\* the version an upstream tag names
UpstreamVersion(t) == SubSeq(t, 3, Len(t))

\* the ways to read a tag as <prefix><release>/<version>
TagParts(t) ==
    { [rel |-> SubSeq(t, Len(tag_prefixes[i]) + 1, k - 1), ver |-> SubSeq(t, k + 1, Len(t))] :
        <<i, k>> \in { x \in (DOMAIN tag_prefixes) \X (DOMAIN t) :
                         /\ Len(t) >= Len(tag_prefixes[x[1]])
                         /\ SubSeq(t, 1, Len(tag_prefixes[x[1]])) = tag_prefixes[x[1]]
                         /\ x[2] > Len(tag_prefixes[x[1]]) + 1
                         /\ t[x[2]] = "/"
                         /\ \A j \in (Len(tag_prefixes[x[1]]) + 1)..Len(t) :
                                t[j] = "/" => j = x[2] } }

\* the commit the instance was built for
Target == rev_parse(repo, pkg.commit_hash)

\* "<14-digit timestamp>.<7 characters of the hash>.<comment>" for the target
ExpectedSuffix ==
    strftime(committed_date(Target)) \o <<".">> \o SubSeq(Hash(Target), 1, 7)
        \o <<".">> \o pkg.comment

Digits == {"0", "1", "2", "3", "4", "5", "6", "7", "8", "9"}

\* the separator the version carries between starting version and suffix
ExpectedSeparator(start) ==
    IF obs.native = "False" /\ \A i \in DOMAIN start : start[i] # "-"
    THEN <<"-", "1", "~", "git">>
    ELSE <<"+", "git">>

(***************************************************************************)
(* Properties of the main flow (Spec)                                      *)
(***************************************************************************)
\* the history is one chain of commits from commit 1 to the last
IsLinear ==
    /\ \A c \in 1..(repo.n - 1) : repo.parents[c] = <<c + 1>>
    /\ repo.parents[repo.n] \in {<<>>, <<Unresolvable>>}

\* every tag of the release family reads as <prefix><release>/<version>
TagsWellFormed ==
    \A c \in 1..repo.n : IsReleaseTag(repo.tag[c]) => TagParts(repo.tag[c]) # {}

\* a version with "~" for "_" and ":" for "%"
Desanitized(v) ==
    [i \in DOMAIN v |-> IF v[i] = "_" THEN "~" ELSE IF v[i] = "%" THEN ":" ELSE v[i]]

\* the commits that carry a release tag and are neither the target nor the
\* last commit of a linear history, newest first
InnerTagged == Sorted({c \in 2..(repo.n - 1) : IsReleaseTag(repo.tag[c])})

\* the subjects an entry of the output lists
SubjectsOf(st) ==
    UNION { {st.content[i].messages[k] : k \in DOMAIN st.content[i].messages} :
            i \in DOMAIN st.content }

\* the number of times the output lists the subject of commit c
Listed(c) ==
    Cardinality({ x \in (DOMAIN written) \X (1..repo.n) \X (1..repo.n) :
                    /\ x[2] \in DOMAIN written[x[1]].content
                    /\ x[3] \in DOMAIN written[x[1]].content[x[2]].messages
                    /\ written[x[1]].content[x[2]].messages[x[3]] = Subject(c) })

\* C1: on a linear history with k tagged commits other than the target and
\* the last commit, exactly k+1 entries are written, newest first: the first
\* under the release and version of the target and closed at the nearest
\* tagged commit, each later one under the release and version of the tag
\* that closed the entry before it, the last closed at the last commit
C1_LinearSegments ==
    (IsLinear /\ TagsWellFormed /\ pkg.commit_hash = Hash(1)) =>
        /\ pc = "failed" => err \notin {ErrUnpack, ErrNoEntry}
        /\ pc = "done" =>
            /\ Len(written) = Len(InnerTagged) + 1
            /\ written[1].release = obs.releases[1]
            /\ written[1].version = Desanitized(obs.versions[1])
            /\ \A j \in 2..Len(written) :
                 \A parts \in TagParts(repo.tag[InnerTagged[j - 1]]) :
                    /\ written[j].release = parts.rel
                    /\ written[j].version = Desanitized(parts.ver)
            /\ \A j \in DOMAIN written :
                 SubjectsOf(written[j]) =
                    { Subject(c) :
                        c \in (IF j = 1 THEN 1 ELSE InnerTagged[j - 1])
                              .. (IF j = Len(written) THEN repo.n
                                  ELSE InnerTagged[j] - 1) }

\* C1 happens: root -> A -> B (tagged) -> C (tagged) -> HEAD has been written
\* as three entries
C1_TwoTagsThreeEntries ==
    /\ pc = "done"
    /\ IsLinear
    /\ repo.n = 5
    /\ repo.tag = <<None, TagRelTilde, TagRel, None, None>>
    /\ pkg.commit_hash = Hash(1)
    /\ Len(written) = 3
    /\ written[2].version = <<"2", ".", "0", "~", "rc1", "-", "1">>
    /\ written[3].version = <<"1", ".", "2", ".", "3", "-", "2">>

\* C2: when iter_changelog has run to completion, the subject of every commit
\* in the ancestry of the target is listed in exactly one entry
C2_EveryCommitInOneEntry ==
    pc = "done" => \A c \in Reach(repo, {Target}) : Listed(c) = 1

\* C3: the version and release in the header of the first entry are the
\* strings the version and release properties return, never the literal of a
\* tag on the target commit
C3_TopEntryIsResolvedVersion ==
    written # <<>> =>
        /\ written[1].version = obs.versions[1]
        /\ written[1].release = obs.releases[1]
        /\ \A parts \in TagParts(repo.tag[Target]) : written[1].version # parts.ver

\* C10: a run that ends with an error has not opened debian/changelog for
\* writing: the file is neither truncated nor partially written
C10_NoOutputOnError ==
    pc = "failed" => ~obs.opened /\ written = <<>>

(***************************************************************************)
(* Properties of the version resolver (SpecVersion)                        *)
(***************************************************************************)

\* C4: every value pkg.version returns on one instance is the value it
\* returned first, whatever has happened in between to debian/changelog, the
\* tags or the checked-out commit
C4_VersionIsMemoized ==
    \A i \in DOMAIN obs.versions : obs.versions[i] = obs.versions[1]

\* C4 happens: the version was read before and after debian/changelog was
\* emptied, and resolving again now would give another version
C4_ReadAgainAfterTruncation ==
    /\ Len(obs.versions) >= 2
    /\ obs.at[1].changelog # EmptyFile
    /\ obs.at[2].changelog = EmptyFile
    /\ resolve_version(pkg, repo, files).ret # obs.versions[1]

\* C5: the starting version is the value of the first strategy, in the fixed
\* order, that returns a non-empty value, and the loop calls no strategy after it
C5_FirstNonEmptyStrategyWins ==
    (obs.called > 0 /\ obs.starting # None) =>
        LET k == Min({i \in DOMAIN obs.strategies : Truthy(obs.strategies[i])})
        IN  /\ obs.starting = obs.strategies[k]
            /\ obs.called = k

\* the list the non-native strategy scans, and the places of its release and
\* upstream tags
ScanList == NonNativeTags(pkg, repo)
ScanReleases == {i \in DOMAIN ScanList : IsReleaseTag(ScanList[i])}
ScanUpstreams == {i \in DOMAIN ScanList : IsUpstreamTag(ScanList[i])}

\* what C6 says get_version_from_non_native_tags returns
ExpectedNonNative ==
    IF ScanReleases = {}
    THEN IF ScanUpstreams = {} THEN None
         ELSE UpstreamVersion(ScanList[Min(ScanUpstreams)])
    ELSE LET firstRelease == AfterLastSlash(ScanList[Min(ScanReleases)])
         IN  IF ScanUpstreams = {} \/ Min(ScanReleases) < Min(ScanUpstreams)
             THEN firstRelease
             ELSE IF \E i \in DOMAIN firstRelease : firstRelease[i] = "%"
                  THEN EpochOf(firstRelease) \o <<":">>
                           \o UpstreamVersion(ScanList[Min(ScanUpstreams)])
                  ELSE UpstreamVersion(ScanList[Min(ScanUpstreams)])

\* C6: for a non-native package the second strategy returns the version of
\* the first release tag of the scanned list when no upstream tag precedes it,
\* "<epoch>:U" or U when the upstream tag U precedes it, U when no release tag
\* follows, and nothing when the list holds no qualifying tag; U is always the
\* upstream tag nearest to the target
C6_NonNativeScanResult ==
    (obs.called >= 2 /\ obs.native = "False") =>
        obs.strategies[2] = ExpectedNonNative

\* C6 happens: two upstream tags precede a release tag that carries an epoch,
\* and the strategy was called
C6_UpstreamBeforeEpochTag ==
    /\ obs.called >= 2
    /\ obs.native = "False"
    /\ Cardinality(ScanUpstreams) >= 2
    /\ ScanReleases # {}
    /\ Min(ScanUpstreams) < Min(ScanReleases)
    /\ obs.strategies[2] = <<"1", ":", "2", ".", "0", ".", "0">>

\* C7: the version is the starting version, then "-1~git" when the package is
\* non-native and the starting version has no "-" and "+git" otherwise, then
\* the 14-digit timestamp, 7 characters of the hash and the slugified comment;
\* upstream/2.0.0 nearest on a non-native package gives "2.0.0-1~git...", and
\* a native package without tags and changelog gives "0.0.0+git..."
C7_VersionTemplate ==
    obs.versions # <<>> =>
        /\ obs.versions[1] =
               obs.starting \o ExpectedSeparator(obs.starting) \o ExpectedSuffix
        /\ Len(strftime(committed_date(Target))) = 14
        /\ \A i \in 1..14 : strftime(committed_date(Target))[i] \in Digits
        /\ Len(SubSeq(Hash(Target), 1, 7)) = 7
        /\ \A i \in DOMAIN pkg.comment : pkg.comment[i] \notin (NotAllowed \ {"."})
        /\ ( /\ obs.native = "False"
             /\ pkg.tag = None
             /\ ScanUpstreams # {}
             /\ ScanList[Min(ScanUpstreams)] = TagUpstream
             /\ ScanReleases = {}
             => obs.versions[1] =
                    <<"2", ".", "0", ".", "0", "-", "1", "~", "git">> \o ExpectedSuffix )
        /\ ( /\ obs.native = "True"
             /\ pkg.tag = None
             /\ \A c \in DOMAIN obs.at[1].tag : obs.at[1].tag[c] = None
             /\ obs.at[1].changelog = NoFile
             => obs.versions[1] =
                    <<"0", ".", "0", ".", "0", "+", "git">> \o ExpectedSuffix )

\* C7 happens: a non-native package with upstream/2.0.0 nearest and no
\* release tag has been given its version
C7_UpstreamOnly ==
    /\ obs.versions # <<>>
    /\ obs.native = "False"
    /\ pkg.tag = None
    /\ ScanUpstreams # {}
    /\ ScanList[Min(ScanUpstreams)] = TagUpstream
    /\ ScanReleases = {}

FromReleaseTagWithoutRevision ==
    \/ /\ pkg.tag # None
       /\ IsReleaseTag(pkg.tag)
       /\ \A i \in DOMAIN AfterLastSlash(pkg.tag) : AfterLastSlash(pkg.tag)[i] # "-"
    \/ /\ pkg.tag = None
       /\ ScanReleases # {}
       /\ ScanUpstreams = {}
       /\ LET v == AfterLastSlash(ScanList[Min(ScanReleases)])
          IN  \A i \in DOMAIN v : v[i] # "-"

\* C9: a non-native package whose version is resolved from a release tag cut
\* without a debian revision gets no version: the access raises
C9_NoRevisionFails ==
    (obs.called > 0 /\ obs.native = "False" /\ FromReleaseTagWithoutRevision) =>
        /\ obs.versions = <<>>
        /\ pc = "failed"

(***************************************************************************)
(* Properties of the main flow, continued (Spec)                           *)
(***************************************************************************)
\* the commit the loop is at
Current == it.walk[it.cursor]

\* a commit without parents, or whose first parent cannot be loaded
IsLastTraversable(c) ==
    \/ repo.parents[c] = <<>>
    \/ repo.parents[c][1] = 0

\* how far the main flow has come
Rank ==
    CASE pc = "version" -> 0
      [] pc = "open" -> 1
      [] pc = "iter" -> 2
      [] pc = "loop" -> 3
      [] OTHER -> 4

\* the generator has finished: it stopped at a last traversable commit, whose
\* subject is in the last entry written and in no other, no entry is pending
\* and every commit the walk went through is in an entry
ClosedAtLast ==
    /\ it.cursor \in DOMAIN it.walk
    /\ IsLastTraversable(Current)
    /\ written # <<>>
    /\ Subject(Current) \in SubjectsOf(written[Len(written)])
    /\ Listed(Current) = 1
    /\ ~it.entry.exists
    /\ \A i \in 1..it.cursor : Listed(it.walk[i]) = 1

\* C11: on every history iter_changelog terminates: every step of the main
\* flow moves it on, and every iteration of the loop either ends the loop or
\* advances to a further commit of the finite walk; and when the generator
\* finishes, it has closed the pending entry at a last traversable commit
C11_TerminatesAndCloses ==
    [][ /\ \/ Rank' > Rank
           \/ /\ pc = "loop" /\ pc' = "loop"
              /\ it'.walk = it.walk
              /\ it'.cursor = it.cursor + 1
              /\ it'.cursor <= Len(it.walk)
        /\ pc' = "done" => ClosedAtLast' ]_vars

\* C11 happens: a walk with a merge has ended at the boundary of a shallow
\* clone, after an entry was closed at a tag
C11_ClosedAtShallowBoundary ==
    /\ pc = "done"
    /\ repo.parents[1] = <<2, 3>>
    /\ repo.parents[Current] = <<0>>
    /\ Len(written) = 2

(***************************************************************************)
(* Properties of the version resolver, continued (SpecVersion)             *)
(***************************************************************************)
\* the places of "(" in a line, and of ")" after place i
Opens(line) == {i \in DOMAIN line : line[i] = "("}
ClosesAfter(line, i) == {j \in DOMAIN line : j > i /\ line[j] = ")"}

\* a first line of the form "<name> (<version>) ..."
WellFormedLine(line) ==
    /\ Len(line) >= 5
    /\ line[1] \notin {" ", "(", ")"}
    /\ line[2] = " "
    /\ line[3] = "("
    /\ ClosesAfter(line, 3) # {}
    /\ Min(ClosesAfter(line, 3)) > 4

\* the token between the first pair of parentheses
BetweenParentheses(line) ==
    SubSeq(line, Min(Opens(line)) + 1, Min(ClosesAfter(line, Min(Opens(line)))) - 1)

\* C12: when the strategy loop reaches an existing debian/changelog whose
\* first line is malformed, the changelog strategy yields nothing and the
\* starting version is the default "0.0.0"; when the line is well-formed the
\* strategy yields the token between the first pair of parentheses
C12_MalformedChangelogYieldsNothing ==
    (obs.called >= 4 /\ obs.at # <<>> /\ obs.at[1].changelog.exists) =>
        LET line == obs.at[1].changelog.content
        IN  IF WellFormedLine(line)
            THEN /\ obs.strategies[4] = BetweenParentheses(line)
                 /\ obs.starting = BetweenParentheses(line)
            ELSE /\ obs.strategies[4] = None
                 /\ obs.called = 5
                 /\ obs.starting = <<"0", ".", "0", ".", "0">>

\* s without the prefix p it starts with
DropPrefix(s, p) ==
    IF Len(s) >= Len(p) /\ SubSeq(s, 1, Len(p)) = p
    THEN SubSeq(s, Len(p) + 1, Len(s)) ELSE s

\* what precedes the first "/" of s, or all of s
BeforeFirstSlash(s) ==
    IF \E i \in DOMAIN s : s[i] = "/"
    THEN SubSeq(s, 1, Min({i \in DOMAIN s : s[i] = "/"}) - 1)
    ELSE s

\* the release name C13 derives from the arguments of the instance
ExpectedRelease ==
    LET derived ==
            IF pkg.tag # None
            THEN BeforeFirstSlash(DropPrefix(DropPrefix(pkg.tag, <<"droidian", "/">>),
                                             <<"hybris-mobian", "/">>))
            ELSE BeforeFirstSlash(DropPrefix(pkg.branch, <<"feature", "/">>))
    IN  IF derived = <<"droidian">> THEN <<"trixie">> ELSE derived

\* C13: every value pkg.release returns is the name derived from the explicit
\* tag when there is one, from the branch otherwise, replaced when it is the
\* rolling release; without tag and branch the access raises and returns
\* nothing
C13_ReleaseDerivation ==
    /\ (pkg.tag # None \/ pkg.branch # None) =>
           /\ \A i \in DOMAIN obs.releases : obs.releases[i] = ExpectedRelease
           /\ err # ErrNoRelease
    /\ (pkg.tag = None /\ pkg.branch = None) =>
           /\ obs.releases = <<>>
           /\ pc = "failed" => err \in {ErrNoRelease, ErrNoFormat}

\* C13 happens: with both a tag and a branch given, the release was read twice
C13_TagBeforeBranchTwice ==
    /\ pkg.tag = TagRel
    /\ pkg.branch = BranchRolling
    /\ obs.releases = << <<"bookworm">>, <<"bookworm">> >>

\* C13 happens: the rolling release read from the branch was replaced
C13_RollingReplaced ==
    /\ pkg.tag = None
    /\ pkg.branch = BranchRolling
    /\ obs.releases = << <<"trixie">>, <<"trixie">> >>

(***************************************************************************)
(* Properties of the entries (Spec)                                        *)
(***************************************************************************)
\* the commit a subject line belongs to
CommitOf(m) == CHOOSE c \in 1..repo.n : m = <<"subject", " ", ToString(c)>>

\* C14: in every entry written, the messages under one author are in
\* oldest-to-newest commit order, whatever the interleaving of authors;
\* commits by Alice, Bob, Alice (oldest to newest) give Alice: [msg1, msg3]
\* and Bob: [msg2]
C14_MessagesOldestFirst ==
    /\ \A j \in DOMAIN written : \A i \in DOMAIN written[j].content :
          LET ms == written[j].content[i].messages
          IN  /\ ms # <<>>
              /\ \A k \in DOMAIN ms : \A l \in DOMAIN ms :
                    k < l => CommitOf(ms[k]) > CommitOf(ms[l])
              /\ \A k \in DOMAIN ms : \A l \in DOMAIN ms :
                    repo.author[CommitOf(ms[k])] = repo.author[CommitOf(ms[l])]
    /\ ( /\ pc = "done"
         /\ repo.n = 3
         /\ repo.parents = << <<2>>, <<3>>, <<>> >>
         /\ repo.author = <<"Alice", "Bob", "Alice">>
         /\ \A c \in 1..3 : repo.tag[c] = None
         => /\ Len(written) = 1
            /\ \E i \in DOMAIN written[1].content :
                  /\ written[1].content[i].heading = <<"Alice">>
                  /\ written[1].content[i].messages =
                        << <<"subject", " ", "3">>, <<"subject", " ", "1">> >>
            /\ \E i \in DOMAIN written[1].content :
                  /\ written[1].content[i].heading = <<"Bob">>
                  /\ written[1].content[i].messages = << <<"subject", " ", "2">> >> )

\* C14 happens: Alice, Bob, Alice in one segment have been written
C14_AliceBobAlice ==
    /\ pc = "done"
    /\ repo.n = 3
    /\ repo.author = <<"Alice", "Bob", "Alice">>
    /\ \A c \in 1..3 : repo.tag[c] = None
    /\ Len(written) = 1
    /\ Len(written[1].content) = 2

\* the oldest commit among the messages of a group
OldestOf(group) ==
    CHOOSE c \in {CommitOf(group.messages[k]) : k \in DOMAIN group.messages} :
        \A k \in DOMAIN group.messages : CommitOf(group.messages[k]) <= c

\* C15: in every entry written, the authors are listed in first-seen order
\* over the commits of the segment from oldest to newest: a group comes before
\* another when its oldest commit is the older one, so the author of the
\* oldest commit of the segment comes first
C15_AuthorsOldestFirstSeen ==
    \A j \in DOMAIN written :
        \A i \in DOMAIN written[j].content : \A k \in DOMAIN written[j].content :
            i < k => OldestOf(written[j].content[i]) > OldestOf(written[j].content[k])

(***************************************************************************)
(* Properties of sanitize_tag_version (SpecSanitize)                       *)
(***************************************************************************)
\* C16: sanitize_tag_version gives its argument with every "_" replaced by
\* "~" and every "%" by ":" and nothing else changed ("1_0%2" becomes
\* "1~0:2"); the result holds no "_" and no "%", and sanitizing it again
\* gives the same string
C16_SanitizeIsIdempotent ==
    /\ Len(obs.versions) >= 1 =>
          /\ Len(obs.versions[1]) = Len(it.nearest_version)
          /\ \A i \in DOMAIN it.nearest_version :
                obs.versions[1][i] =
                    CASE it.nearest_version[i] = "_" -> "~"
                      [] it.nearest_version[i] = "%" -> ":"
                      [] OTHER -> it.nearest_version[i]
          /\ \A i \in DOMAIN obs.versions[1] : obs.versions[1][i] \notin {"_", "%"}
          /\ it.nearest_version = <<"1", "_", "0", "%", "2">> =>
                obs.versions[1] = <<"1", "~", "0", ":", "2">>
    /\ Len(obs.versions) >= 2 => obs.versions[2] = obs.versions[1]

\* C16 happens: a raw version with both stand-ins has been sanitized twice
C16_BothStandInsTwice ==
    /\ pc = "twice"
    /\ \E i \in DOMAIN it.nearest_version : it.nearest_version[i] = "_"
    /\ \E i \in DOMAIN it.nearest_version : it.nearest_version[i] = "%"
    /\ Len(obs.versions) = 2
    /\ obs.versions[1] # it.nearest_version

(***************************************************************************)
(* Properties of the segments (Spec)                                       *)
(***************************************************************************)
\* the commits an entry of the output lists
CommitsOf(st) == {CommitOf(m) : m \in SubjectsOf(st)}

\* the commits in the ancestry of the target that carry a release tag and are
\* neither the target nor a last traversable commit
InnerTaggedCommits ==
    {c \in Reach(repo, {Target}) :
        IsReleaseTag(repo.tag[c]) /\ c # Target /\ ~IsLastTraversable(c)}

\* the trailer of an entry is that of commit c
TrailerFrom(st, c) ==
    /\ st.author = repo.author[c]
    /\ st.mail = <<repo.author[c], "@", "example", ".", "org">>
    /\ st.date = committed_date(c)

\* C17: when the run is complete, a commit that carries a release tag and is
\* neither the target nor the last traversable commit is listed in exactly one
\* entry, which is not the first, carries the release and version of that tag
\* and has the commit as its newest; and the trailer of every entry is that
\* of the newest commit it lists
C17_TaggedCommitOpensItsEntry ==
    pc = "done" =>
        /\ \A c \in InnerTaggedCommits :
              /\ Listed(c) = 1
              /\ \E j \in 2..Len(written) :
                    /\ c = Min(CommitsOf(written[j]))
                    /\ \A parts \in TagParts(repo.tag[c]) :
                          /\ written[j].release = parts.rel
                          /\ written[j].version = Desanitized(parts.ver)
        /\ \A j \in DOMAIN written :
              TrailerFrom(written[j], Min(CommitsOf(written[j])))

(***************************************************************************)
(* Properties of the nearest-tag strategy (SpecVersion)                    *)
(***************************************************************************)
\* the commits in the ancestry of the target that carried a release tag when
\* the version was resolved
TaggedAncestors ==
    {c \in Reach(repo, {Target}) : IsReleaseTag(obs.at[1].tag[c])}

\* C18: for a native package without explicit tag, the nearest-tag strategy
\* gives the version of the closest release tag in the ancestry of the target
\* commit, and nothing when there is none, whichever commit is checked out
C18_NearestTagFromTarget ==
    (obs.native = "True" /\ pkg.tag = None /\ obs.called >= 3 /\ obs.at # <<>>) =>
        IF TaggedAncestors = {}
        THEN obs.strategies[3] = None
        ELSE \A parts \in TagParts(obs.at[1].tag[Min(TaggedAncestors)]) :
                /\ obs.strategies[3] = parts.ver
                /\ obs.starting = parts.ver

\* the last traversable commit of the walk: the first one it comes to that
\* has no parents or whose first parent cannot be loaded
LastTraversable ==
    it.walk[Min({i \in DOMAIN it.walk : IsLastTraversable(it.walk[i])})]

\* the release and version an entry carries are those of tag t
CarriesTag(st, t) ==
    \E parts \in TagParts(t) :
        st.release = parts.rel /\ st.version = Desanitized(parts.ver)

\* C19: when the last traversable commit carries a release tag (the tag of no
\* other commit) and is not the target, the finished run has listed it in
\* the last entry, which carries the release and version that were nearest
\* before it, the walk stopped there, and no entry carries the release and
\* version of its tag
C19_TagOnLastCommitNeverOpens ==
    ( /\ pc = "done"
      /\ IsReleaseTag(repo.tag[LastTraversable])
      /\ LastTraversable # Target
      /\ \A c \in 1..repo.n : c # LastTraversable => repo.tag[c] # repo.tag[LastTraversable] )
    => /\ it.cursor \in DOMAIN it.walk
       /\ Current = LastTraversable
       /\ Listed(LastTraversable) = 1
       /\ LastTraversable \in CommitsOf(written[Len(written)])
       /\ LET final == written[Len(written)]
          IN  IF Len(written) = 1
              THEN /\ final.release = obs.releases[1]
                   /\ final.version = Desanitized(obs.versions[1])
              ELSE /\ Min(CommitsOf(final)) # LastTraversable
                   /\ CarriesTag(final, repo.tag[Min(CommitsOf(final))])
       /\ \A j \in DOMAIN written : ~CarriesTag(written[j], repo.tag[LastTraversable])

\* C19 happens: a run on HEAD -> B (tagged) -> root (tagged) is complete
C19_TaggedRootClosed ==
    /\ pc = "done"
    /\ repo.n = 3
    /\ repo.parents = << <<2>>, <<3>>, <<>> >>
    /\ repo.tag = <<None, TagRelTilde, TagRel>>
    /\ Len(written) = 2
    /\ written[2].version = <<"2", ".", "0", "~", "rc1", "-", "1">>

\* C20: when commit_hash is the full hash of the first commit of the walk,
\* no entry is emitted from a null accumulator, every entry written holds at
\* least one message under every author it lists, and while the loop runs
\* the accumulator is null only before the first commit is processed
C20_EntryPresentAtEmission ==
    pkg.commit_hash = Hash(Target) =>
        /\ err # ErrNoEntry
        /\ \A j \in DOMAIN written :
              /\ written[j].content # <<>>
              /\ \A i \in DOMAIN written[j].content :
                    written[j].content[i].messages # <<>>
        /\ pc = "loop" =>
              IF it.cursor = 1
              THEN ~it.entry.exists
              ELSE /\ it.entry.exists
                   /\ it.entry.contents # <<>>
                   /\ \A i \in DOMAIN it.entry.contents :
                         it.entry.contents[i].messages # <<>>
        /\ pc = "done" => ~it.entry.exists

\* C20 happens: a history of one commit, tagged, given by its full hash, has
\* been written as one entry
C20_TaggedSingleCommit ==
    /\ pc = "done"
    /\ repo.n = 1
    /\ repo.tag[1] = TagRel
    /\ pkg.commit_hash = Hash(1)
    /\ Len(written) = 1
    /\ written[1].content[1].messages = << <<"subject", " ", "1">> >>

\* C20 happens: the target carries a tag and is not the last commit
C20_TaggedTargetWithHistory ==
    /\ pc = "done"
    /\ repo.n = 3
    /\ repo.tag = <<TagRel, None, None>>
    /\ pkg.commit_hash = Hash(1)
    /\ Len(written) = 1

====
